---- MODULE Spec2Model ----
(***************************************************************************)
(* Balance ledger and settlement engine of the Bitsafe API server          *)
(* (src/server/index.js).  Every request handler is an async function on   *)
(* one shared SQLite connection: each `await db.get/run` is a suspension   *)
(* point, so a handler is modelled as a sequence of steps, one per         *)
(* awaited statement, that may interleave with the steps of other          *)
(* handlers.  BEGIN / COMMIT / ROLLBACK act on the single connection, so   *)
(* at most one transaction is open at a time, whoever opened it.           *)
(*                                                                         *)
(* Amounts are JavaScript doubles in the code.  They are modelled as       *)
(* integers, and the request inputs are restricted to amounts for which    *)
(* every product and quotient the code computes is an integer (where       *)
(* double arithmetic is exact as well).                                    *)
(***************************************************************************)
EXTENDS Integers, Sequences, FiniteSets, TLC

VARIABLES
    db,              \* the SQLite database: tables users, user_balances, deposits, withdrawals, trades
    txn,             \* <<>> when the connection is in autocommit mode, <<snapshot>> inside a transaction
    ADMIN_WIN_SIDE,  \* the process-wide winning side
    req,             \* the request handlers in flight: slot -> handler position and locals
    nreq,            \* number of requests received so far
    hist             \* history of the answered requests (observation only)

vars == <<db, txn, ADMIN_WIN_SIDE, req, nreq, hist>>

(* ------------------------------ bounds --------------------------------- *)
MaxRequests == 2

\* Two handlers can be in flight at once.
Slots == {1, 2}

(* ------------------------------ domains -------------------------------- *)
\* "u1" is registered in every initial state; "u2" only in those of SpecUsers.
UserNames == {"u1", "u2"}
Currencies == {"USDT", "BTC", "XAU"}
Amounts == {0, 50, 100}
Sides == {"long", "short"}

\* min_trade_amount REAL DEFAULT 10 and `user.min_trade_amount || 10`
DefaultMinTrade == 10

\* Option values (a JavaScript value that may be undefined): <<>> or <<v>>.
None == <<>>
Some(v) == <<v>>

(* ------------------------------ prices --------------------------------- *)
\* The upstream ticker, already reduced to the pairs quoted in USDT.
LiveTicker == [BTC |-> 2]

FallbackPrices == [BTC |-> 95000, ETH |-> 3600, BNB |-> 600, SOL |-> 150, USDT |-> 1]

\* getPrices(): the live map plus USDT = 1, or the fallback table when the fetch throws.
getPrices(fetchOk) ==
    IF fetchOk
    THEN [c \in DOMAIN LiveTicker \cup {"USDT"} |->
            IF c = "USDT" THEN 1 ELSE LiveTicker[c]]
    ELSE FallbackPrices

\* What the upstream fetch can produce.  A ticker item carries a symbol, the
\* concatenation of a base and a quote code, and a price; an item without a
\* symbol makes `item.symbol.endsWith` throw.  A price that does not parse is
\* NaN, which the callers only test for falsiness: 0.
TickerItems ==
    {[hasSymbol |-> TRUE, base |-> "BTC", quote |-> "USDT", price |-> 2],
     [hasSymbol |-> TRUE, base |-> "BTC", quote |-> "USDT", price |-> 0],
     [hasSymbol |-> TRUE, base |-> "XAU", quote |-> "BTC", price |-> 3],
     [hasSymbol |-> TRUE, base |-> "USDT", quote |-> "USDT", price |-> 5],
     [hasSymbol |-> FALSE, base |-> "", quote |-> "", price |-> 0]}

MaxTicker == 2

\* fetch() or response.json() throws; the body is JSON but not an array; or
\* it is an array of items.
Upstreams ==
    {[kind |-> k, items |-> <<>>] : k \in {"throws", "object"}}
    \cup {[kind |-> "array", items |-> q] :
            q \in UNION {[1..n -> TickerItems] : n \in 0..MaxTicker}}

\* data.forEach(...) of lines 307-312: None when an item makes it throw.
\* symbol.replace('USDT', '') removes the first occurrence, which leaves the
\* base code for every symbol above.
RECURSIVE ForEachItem(_, _)
ForEachItem(items, prices) ==
    IF items = <<>> THEN Some(prices)
    ELSE LET item == Head(items)
         IN IF ~item.hasSymbol THEN None
            ELSE IF item.quote = "USDT"
                 THEN ForEachItem(Tail(items), (item.base :> item.price) @@ prices)
                 ELSE ForEachItem(Tail(items), prices)

\* Faulty variant: the stable unit is entered before the ticker is read.
TickerPricesStableFirst(upstream) ==
    LET live == ForEachItem(upstream.items, [c \in {"USDT"} |-> 1])
    IN IF upstream.kind = "array" /\ live # None THEN live[1] ELSE FallbackPrices

\* getPrices() on a given upstream answer (lines 301-327): the try block
\* covers the fetch, the parse and the loop, so every throw ends in the
\* fallback table.  getPrices(TRUE) and getPrices(FALSE) above are its values
\* on the ticker <<BTCUSDT = 2>> and on a fetch that throws.
TickerPrices(upstream) ==
    LET live == ForEachItem(upstream.items, [c \in {} |-> 0])
    IN IF upstream.kind = "array" /\ live # None
       THEN ("USDT" :> 1) @@ live[1]
       ELSE FallbackPrices

\* Faulty variant: a currency without a quote is priced like the stable unit.
PriceOfAssumed(prices, c) == IF c \in DOMAIN prices THEN prices[c] ELSE prices["USDT"]

\* prices[c]; an absent key is undefined, which the code only tests for falsiness: 0.
PriceOf(prices, c) == IF c \in DOMAIN prices THEN prices[c] ELSE 0

\* Faulty variant: the rate is left out of the target amount.
TargetAmountDropRate(amount, pFrom, pTo) == amount

\* const valUsdt = amount * pFrom; const targetAmount = valUsdt / pTo
TargetAmount(amount, pFrom, pTo) == (amount * pFrom) \div pTo

\* The inputs for which the quotient above is an integer.
Exact(amount, pFrom, pTo) == IF pTo = 0 THEN TRUE ELSE (amount * pFrom) % pTo = 0

(* --------------------------- SQL statements ---------------------------- *)
HasUser(d, username) == username \in DOMAIN d.users

HasRow(d, username, currency) == <<username, currency>> \in DOMAIN d.user_balances

\* UPDATE users SET balance = balance + ? WHERE username=?
UpdateUsersBalance(d, username, delta) ==
    IF HasUser(d, username)
    THEN [d EXCEPT !.users[username].balance = @ + delta]
    ELSE d

\* UPDATE user_balances SET amount = amount + ? WHERE username=? AND currency=?
UpdateUserBalances(d, username, currency, delta) ==
    IF HasRow(d, username, currency)
    THEN [d EXCEPT !.user_balances[<<username, currency>>] = @ + delta]
    ELSE d

\* UPDATE user_balances SET amount = amount - ? WHERE username=? AND currency='USDT' AND amount >= ?
UpdateMirrorIfSufficient(d, username, amount) ==
    IF HasRow(d, username, "USDT") /\ d.user_balances[<<username, "USDT">>] >= amount
    THEN [d EXCEPT !.user_balances[<<username, "USDT">>] = @ - amount]
    ELSE d

\* INSERT INTO user_balances ... ON CONFLICT(username, currency) DO UPDATE SET amount = amount + ?
UpsertUserBalances(d, username, currency, amount) ==
    IF HasRow(d, username, currency)
    THEN [d EXCEPT !.user_balances[<<username, currency>>] = @ + amount]
    ELSE [d EXCEPT !.user_balances =
            [k \in DOMAIN @ \cup {<<username, currency>>} |->
                IF k = <<username, currency>> THEN amount ELSE @[k]]]

\* INSERT INTO trades (username, symbol, side, amount, profit, result)
InsertTrade(d, username, symbol, side, amount, profit, result) ==
    [d EXCEPT !.trades = Append(@,
        [username |-> username, symbol |-> symbol, side |-> side,
         amount |-> amount, profit |-> profit, result |-> result])]

\* INSERT INTO withdrawals (username, currency, network, amount, address, status) VALUES (..., 'pending')
InsertWithdrawal(d, username, currency, amount) ==
    [d EXCEPT !.withdrawals = Append(@,
        [username |-> username, currency |-> currency, amount |-> amount,
         status |-> "pending"])]

\* INSERT INTO deposits (username, currency, network, amount, proof_image); status DEFAULT 'pending'
InsertDeposit(d, username, currency, amount) ==
    [d EXCEPT !.deposits = Append(@,
        [username |-> username, currency |-> currency, amount |-> amount,
         status |-> "pending"])]

\* UPDATE withdrawals SET status=? WHERE id=?
UpdateWithdrawalStatus(d, id, status) ==
    IF id \in DOMAIN d.withdrawals
    THEN [d EXCEPT !.withdrawals[id].status = status]
    ELSE d

\* UPDATE deposits SET status=? WHERE id=?
UpdateDepositStatus(d, id, status) ==
    IF id \in DOMAIN d.deposits
    THEN [d EXCEPT !.deposits[id].status = status]
    ELSE d

(* ---------------------------- observations ----------------------------- *)
\* What a reader of the legacy scalar sees (0 for an unknown user).
Legacy(d, username) == IF HasUser(d, username) THEN d.users[username].balance ELSE 0

\* What a reader of the per-currency ledger sees (0 for an absent row).
Entry(d, username, currency) ==
    IF HasRow(d, username, currency) THEN d.user_balances[<<username, currency>>] ELSE 0

\* The available balance of spec section 4.2: the legacy scalar for USDT, the entry otherwise.
Available(d, username, currency) ==
    IF currency = "USDT" THEN Legacy(d, username) ELSE Entry(d, username, currency)

(* ------------------------------ requests ------------------------------- *)
Idle ==
    [kind |-> "none", pc |-> "idle", username |-> "", fromCurrency |-> "",
     toCurrency |-> "", amount |-> 0, side |-> "", seconds |-> None,
     percent |-> None, usedPercent |-> 0, id |-> 0, status |-> "", fetchOk |-> TRUE,
     fault |-> "none", pFrom |-> 0, pTo |-> 0, targetAmount |-> 0,
     win |-> FALSE, profit |-> 0, row |-> None, code |-> 0, error |-> "",
     isNaN |-> FALSE, pre |-> None, overlapped |-> FALSE,
     upstream |-> None, prices |-> None]

\* The store throws at the statement the request is about to run.
Faulty(r) == r.fault = r.pc

Busy(s) == req[s].pc \notin {"idle", "done", "hung"}

AllIdle == \A s \in Slots : req[s].pc = "idle"

ZeroOf == [c \in Currencies |-> 0]

\* The totals of the requests answered with success.
Account(r, code) ==
    IF code # 200 THEN hist
    ELSE CASE r.kind = "convert" ->
                [hist EXCEPT !.debited[r.fromCurrency] = @ + r.amount,
                             !.credited[r.toCurrency] = @ + r.targetAmount]
           [] r.kind = "withdraw" ->
                [hist EXCEPT !.debited[r.fromCurrency] = @ + r.amount,
                             !.escrow = Some([id |-> r.id, before |-> r.pre[1], after |-> db])]
           [] r.kind = "trade" ->
                [hist EXCEPT !.settled = @ + r.profit, !.ntrades = @ + 1]
           [] OTHER -> hist

\* The handler moves on to its next awaited statement.
Goto(s, r, pc) ==
    /\ req' = [req EXCEPT ![s] = [r EXCEPT !.pc = pc]]
    /\ UNCHANGED hist

\* res.status(code).json(...): the handler is finished.
Reply(s, r, code, error) ==
    /\ req' = [req EXCEPT ![s] = [r EXCEPT !.pc = "done", !.code = code, !.error = error]]
    /\ hist' = Account(r, code)

\* An exception escapes the handler (unhandled rejection): no response is ever sent.
Hang(s, r) ==
    /\ req' = [req EXCEPT ![s] = [r EXCEPT !.pc = "hung"]]
    /\ UNCHANGED hist

\* A new request is accepted into a free slot.
Accept(s) == req[s].pc = "idle" /\ nreq < MaxRequests

NewRequest(kind, s) ==
    [Idle EXCEPT !.kind = kind, !.pre = Some(db),
                 !.overlapped = \E t \in Slots \ {s} : Busy(t)]

\* The response has been delivered; the slot is free again.
Retire(s) ==
    /\ req[s].pc = "done"
    /\ req' = [req EXCEPT ![s] = Idle]
    /\ UNCHANGED <<db, txn, ADMIN_WIN_SIDE, nreq, hist>>

(* --------------------- transactions on the connection ------------------ *)
\* BEGIN TRANSACTION fails inside a transaction; COMMIT and ROLLBACK fail outside one.
CanBegin == txn = None
InTxn == txn # None

\* catch (e) { await db.run("ROLLBACK"); res.status(500).json({ error: e.message }); }
CatchRollback(s, kind, pc) ==
    /\ req[s].kind = kind /\ req[s].pc = pc
    /\ IF InTxn
       THEN /\ db' = txn[1]
            /\ txn' = None
            /\ Reply(s, req[s], 500, "store")
       ELSE /\ UNCHANGED <<db, txn>>
            /\ Hang(s, req[s])
    /\ UNCHANGED <<ADMIN_WIN_SIDE, nreq>>

(* --------------------------- POST /api/convert ------------------------- *)
ConvertFaults == {"none", "c_check", "c_begin", "c_deduct", "c_mirror", "c_credit",
                  "c_sync", "c_log", "c_commit"}

\* Lines 367-381: input validation, then getPrices() is awaited.
StartConvertWith(s, Amts, Faults) ==
    /\ Accept(s)
    /\ \E u \in UserNames, f \in Currencies, t \in Currencies, a \in Amts,
          ok \in BOOLEAN, flt \in Faults :
        LET r == [NewRequest("convert", s) EXCEPT
                    !.username = u, !.fromCurrency = f, !.toCurrency = t,
                    !.amount = a, !.fetchOk = ok, !.fault = flt]
        IN /\ Exact(a, PriceOf(getPrices(ok), f), PriceOf(getPrices(ok), t))
           /\ IF a <= 0
              THEN Reply(s, r, 400, "Invalid parameters")
              ELSE IF f = t
                   THEN Reply(s, r, 400, "Cannot convert to same currency")
                   ELSE Goto(s, r, "c_prices")
    /\ nreq' = nreq + 1
    /\ UNCHANGED <<db, txn, ADMIN_WIN_SIDE>>

StartConvert(s, Faults) == StartConvertWith(s, Amounts, Faults)

\* Lines 385-391: the prices arrive.
ConvertPrices(s) ==
    /\ req[s].kind = "convert" /\ req[s].pc = "c_prices"
    /\ LET prices == getPrices(req[s].fetchOk)
           r == [req[s] EXCEPT !.pFrom = PriceOf(prices, req[s].fromCurrency),
                               !.pTo = PriceOf(prices, req[s].toCurrency)]
       IN IF r.pFrom = 0 \/ r.pTo = 0
          THEN Reply(s, r, 400, "Price not available")
          ELSE Goto(s, r, "c_check")
    /\ UNCHANGED <<db, txn, ADMIN_WIN_SIDE, nreq>>

\* if (!user || user.balance < amount) / if (!balanceRow || balanceRow.amount < amount)
ConvertSufficient(d, username, currency, amount) ==
    IF currency = "USDT"
    THEN HasUser(d, username) /\ ~(d.users[username].balance < amount)
    ELSE HasRow(d, username, currency) /\ ~(d.user_balances[<<username, currency>>] < amount)

\* Lines 393-413: the balance check and the target amount.
ConvertCheck(s) ==
    /\ req[s].kind = "convert" /\ req[s].pc = "c_check"
    /\ LET r == req[s]
       IN IF Faulty(r)
          THEN Goto(s, r, "c_catch")
          ELSE IF ~ConvertSufficient(db, r.username, r.fromCurrency, r.amount)
               THEN Reply(s, r, 400, "Insufficient balance")
               ELSE Goto(s, [r EXCEPT !.targetAmount = TargetAmount(r.amount, r.pFrom, r.pTo)],
                         "c_begin")
    /\ UNCHANGED <<db, txn, ADMIN_WIN_SIDE, nreq>>

\* Line 415: await db.run("BEGIN TRANSACTION")
ConvertBegin(s) ==
    /\ req[s].kind = "convert" /\ req[s].pc = "c_begin"
    /\ IF Faulty(req[s]) \/ ~CanBegin
       THEN /\ UNCHANGED txn
            /\ Goto(s, req[s], "c_catch")
       ELSE /\ txn' = Some(db)
            /\ Goto(s, req[s], "c_deduct")
    /\ UNCHANGED <<db, ADMIN_WIN_SIDE, nreq>>

\* Lines 418-425: deduct the source (first statement).
ConvertDeduct(s) ==
    /\ req[s].kind = "convert" /\ req[s].pc = "c_deduct"
    /\ LET r == req[s]
       IN IF Faulty(r)
          THEN UNCHANGED db /\ Goto(s, r, "c_catch")
          ELSE IF r.fromCurrency = "USDT"
               THEN /\ db' = UpdateUsersBalance(db, r.username, -r.amount)
                    /\ Goto(s, r, "c_mirror")
               ELSE /\ db' = UpdateUserBalances(db, r.username, r.fromCurrency, -r.amount)
                    /\ Goto(s, r, "c_credit")
    /\ UNCHANGED <<txn, ADMIN_WIN_SIDE, nreq>>

\* Line 422: best-effort decrement of the USDT mirror row.
ConvertMirror(s) ==
    /\ req[s].kind = "convert" /\ req[s].pc = "c_mirror"
    /\ LET r == req[s]
       IN IF Faulty(r)
          THEN UNCHANGED db /\ Goto(s, r, "c_catch")
          ELSE /\ db' = UpdateMirrorIfSufficient(db, r.username, r.amount)
               /\ Goto(s, r, "c_credit")
    /\ UNCHANGED <<txn, ADMIN_WIN_SIDE, nreq>>

\* Lines 428-442: add the target (first statement).
ConvertCredit(s) ==
    /\ req[s].kind = "convert" /\ req[s].pc = "c_credit"
    /\ LET r == req[s]
       IN IF Faulty(r)
          THEN UNCHANGED db /\ Goto(s, r, "c_catch")
          ELSE IF r.toCurrency = "USDT"
               THEN /\ db' = UpdateUsersBalance(db, r.username, r.targetAmount)
                    /\ Goto(s, r, "c_sync")
               ELSE /\ db' = UpsertUserBalances(db, r.username, r.toCurrency, r.targetAmount)
                    /\ Goto(s, r, "c_log")
    /\ UNCHANGED <<txn, ADMIN_WIN_SIDE, nreq>>

\* Lines 431-435: upsert of the USDT row.
ConvertSync(s) ==
    /\ req[s].kind = "convert" /\ req[s].pc = "c_sync"
    /\ LET r == req[s]
       IN IF Faulty(r)
          THEN UNCHANGED db /\ Goto(s, r, "c_catch")
          ELSE /\ db' = UpsertUserBalances(db, r.username, "USDT", r.targetAmount)
               /\ Goto(s, r, "c_log")
    /\ UNCHANGED <<txn, ADMIN_WIN_SIDE, nreq>>

\* Lines 445-448: the conversion is logged as a trade.
ConvertLog(s) ==
    /\ req[s].kind = "convert" /\ req[s].pc = "c_log"
    /\ LET r == req[s]
       IN IF Faulty(r)
          THEN UNCHANGED db /\ Goto(s, r, "c_catch")
          ELSE /\ db' = InsertTrade(db, r.username, <<r.fromCurrency, r.toCurrency>>,
                                    "convert", r.amount, r.targetAmount, "win")
               /\ Goto(s, r, "c_commit")
    /\ UNCHANGED <<txn, ADMIN_WIN_SIDE, nreq>>

\* Lines 450-451: COMMIT, then the success response.
ConvertCommit(s) ==
    /\ req[s].kind = "convert" /\ req[s].pc = "c_commit"
    /\ IF Faulty(req[s]) \/ ~InTxn
       THEN /\ UNCHANGED txn
            /\ Goto(s, req[s], "c_catch")
       ELSE /\ txn' = None
            /\ Reply(s, req[s], 200, "")
    /\ UNCHANGED <<db, ADMIN_WIN_SIDE, nreq>>

\* Faulty variant: the error handler answers 500 and closes the transaction
\* without undoing its writes.
ConvertRollbackSkipped(s) ==
    /\ req[s].kind = "convert" /\ req[s].pc = "c_catch"
    /\ txn' = None
    /\ Reply(s, req[s], 500, "store")
    /\ UNCHANGED <<db, ADMIN_WIN_SIDE, nreq>>

\* Lines 453-456.
ConvertCatch(s) == CatchRollback(s, "convert", "c_catch")

(* --------------------------- POST /api/withdraw ------------------------ *)
\* Lines 481-484: the status lookup is awaited before anything else.
StartWithdraw(s, Amts) ==
    /\ Accept(s)
    /\ \E u \in UserNames, c \in Currencies, a \in Amts :
        Goto(s, [NewRequest("withdraw", s) EXCEPT
                    !.username = u, !.fromCurrency = c, !.amount = a], "w_status")
    /\ nreq' = nreq + 1
    /\ UNCHANGED <<db, txn, ADMIN_WIN_SIDE>>

\* Lines 484-491: frozen gate, then the field validation.
WithdrawStatus(s) ==
    /\ req[s].kind = "withdraw" /\ req[s].pc = "w_status"
    /\ LET r == req[s]
       IN IF HasUser(db, r.username) /\ db.users[r.username].status = "frozen"
          THEN Reply(s, r, 403, "Account frozen")
          ELSE IF r.amount = 0
               THEN Reply(s, r, 400, "Missing fields")
               ELSE Goto(s, r, "w_begin")
    /\ UNCHANGED <<db, txn, ADMIN_WIN_SIDE, nreq>>

\* Line 494: await db.run("BEGIN TRANSACTION")
WithdrawBegin(s) ==
    /\ req[s].kind = "withdraw" /\ req[s].pc = "w_begin"
    /\ IF ~CanBegin
       THEN /\ UNCHANGED txn
            /\ Goto(s, req[s], "w_catch")
       ELSE /\ txn' = Some(db)
            /\ Goto(s, req[s], "w_select")
    /\ UNCHANGED <<db, ADMIN_WIN_SIDE, nreq>>

\* if (balanceRow && balanceRow.amount >= amount)
RowCovers(d, username, currency, amount) ==
    HasRow(d, username, currency) /\ d.user_balances[<<username, currency>>] >= amount

\* if (userMain && userMain.balance >= amount)
LegacyCovers(d, username, amount) ==
    HasUser(d, username) /\ d.users[username].balance >= amount

\* Lines 506-507 and 520-521: the per-currency row is read and tested.
WithdrawSelect(s) ==
    /\ req[s].kind = "withdraw" /\ req[s].pc = "w_select"
    /\ LET r == req[s]
       IN IF RowCovers(db, r.username, r.fromCurrency, r.amount)
          THEN Goto(s, r, "w_deduct_row")
          ELSE IF r.fromCurrency = "USDT"
               THEN Goto(s, r, "w_select_main")
               ELSE Goto(s, r, "w_nofunds")
    /\ UNCHANGED <<db, txn, ADMIN_WIN_SIDE, nreq>>

\* Lines 512-513: the legacy main balance is read and tested (USDT only).
WithdrawSelectMain(s) ==
    /\ req[s].kind = "withdraw" /\ req[s].pc = "w_select_main"
    /\ LET r == req[s]
       IN IF LegacyCovers(db, r.username, r.amount)
          THEN Goto(s, r, "w_deduct_main")
          ELSE Goto(s, r, "w_nofunds")
    /\ UNCHANGED <<db, txn, ADMIN_WIN_SIDE, nreq>>

\* Lines 508 and 522: UPDATE user_balances SET amount = amount - ?
WithdrawDeductRow(s) ==
    /\ req[s].kind = "withdraw" /\ req[s].pc = "w_deduct_row"
    /\ db' = UpdateUserBalances(db, req[s].username, req[s].fromCurrency, -req[s].amount)
    /\ Goto(s, req[s], "w_insert")
    /\ UNCHANGED <<txn, ADMIN_WIN_SIDE, nreq>>

\* Line 514: UPDATE users SET balance = balance - ?
WithdrawDeductMain(s) ==
    /\ req[s].kind = "withdraw" /\ req[s].pc = "w_deduct_main"
    /\ db' = UpdateUsersBalance(db, req[s].username, -req[s].amount)
    /\ Goto(s, req[s], "w_insert")
    /\ UNCHANGED <<txn, ADMIN_WIN_SIDE, nreq>>

\* Lines 527-530: nothing was deducted: ROLLBACK, then 400.
WithdrawNoFunds(s) ==
    /\ req[s].kind = "withdraw" /\ req[s].pc = "w_nofunds"
    /\ IF InTxn
       THEN /\ db' = txn[1]
            /\ txn' = None
            /\ Reply(s, req[s], 400, "Insufficient balance")
       ELSE /\ UNCHANGED <<db, txn>>
            /\ Goto(s, req[s], "w_catch")
    /\ UNCHANGED <<ADMIN_WIN_SIDE, nreq>>

\* Lines 533-536: the pending withdrawal record.
WithdrawInsert(s) ==
    /\ req[s].kind = "withdraw" /\ req[s].pc = "w_insert"
    /\ db' = InsertWithdrawal(db, req[s].username, req[s].fromCurrency, req[s].amount)
    /\ Goto(s, [req[s] EXCEPT !.id = Len(db.withdrawals) + 1], "w_commit")
    /\ UNCHANGED <<txn, ADMIN_WIN_SIDE, nreq>>

\* Lines 538-539: COMMIT, then { id, status: "pending" }.
WithdrawCommit(s) ==
    /\ req[s].kind = "withdraw" /\ req[s].pc = "w_commit"
    /\ IF ~InTxn
       THEN /\ UNCHANGED txn
            /\ Goto(s, req[s], "w_catch")
       ELSE /\ txn' = None
            /\ Reply(s, req[s], 200, "")
    /\ UNCHANGED <<db, ADMIN_WIN_SIDE, nreq>>

\* Lines 540-543.
WithdrawCatch(s) == CatchRollback(s, "withdraw", "w_catch")

(* ---------------------- POST /api/withdraw/:id/status ------------------ *)
StatusArgs == {"approved", "rejected", "pending"}

\* Lines 998-1006: the status argument is validated, then BEGIN is awaited.
SubmitWithdrawStatus(s, Args) ==
    /\ \E id \in 1..(Len(db.withdrawals) + 1), st \in Args :
        LET r == [NewRequest("wstatus", s) EXCEPT !.id = id, !.status = st]
        IN IF st # "approved" /\ st # "rejected"
           THEN Reply(s, r, 400, "Invalid status")
           ELSE Goto(s, r, "ws_begin")
    /\ nreq' = nreq + 1
    /\ UNCHANGED <<db, txn, ADMIN_WIN_SIDE>>

StartWithdrawStatusWith(s, Args) == Accept(s) /\ SubmitWithdrawStatus(s, Args)

StartWithdrawStatus(s) == StartWithdrawStatusWith(s, StatusArgs)

\* Line 1006: await db.run("BEGIN TRANSACTION")
WithdrawStatusBegin(s) ==
    /\ req[s].kind = "wstatus" /\ req[s].pc = "ws_begin"
    /\ IF ~CanBegin
       THEN /\ UNCHANGED txn
            /\ Goto(s, req[s], "ws_catch")
       ELSE /\ txn' = Some(db)
            /\ Goto(s, req[s], "ws_get")
    /\ UNCHANGED <<db, ADMIN_WIN_SIDE, nreq>>

\* Faulty variant: the status of the withdrawal read is not tested.
WithdrawStatusGetUnchecked(s) ==
    /\ req[s].kind = "wstatus" /\ req[s].pc = "ws_get"
    /\ LET r == req[s]
       IN IF r.id \notin DOMAIN db.withdrawals
          THEN Goto(s, [r EXCEPT !.code = 404, !.error = "Withdrawal not found"], "ws_exit")
          ELSE Goto(s, [r EXCEPT !.row = Some(db.withdrawals[r.id])], "ws_update")
    /\ UNCHANGED <<db, txn, ADMIN_WIN_SIDE, nreq>>

\* Lines 1008-1017: the withdrawal is read; the two early exits roll back first.
WithdrawStatusGet(s) ==
    /\ req[s].kind = "wstatus" /\ req[s].pc = "ws_get"
    /\ LET r == req[s]
       IN IF r.id \notin DOMAIN db.withdrawals
          THEN Goto(s, [r EXCEPT !.code = 404, !.error = "Withdrawal not found"], "ws_exit")
          ELSE IF db.withdrawals[r.id].status # "pending"
               THEN Goto(s, [r EXCEPT !.code = 400, !.error = "Withdrawal already processed",
                                      !.row = Some(db.withdrawals[r.id])], "ws_exit")
               ELSE Goto(s, [r EXCEPT !.row = Some(db.withdrawals[r.id])], "ws_update")
    /\ UNCHANGED <<db, txn, ADMIN_WIN_SIDE, nreq>>

\* Lines 1010-1011 and 1015-1016: ROLLBACK, then the error response.
WithdrawStatusExit(s) ==
    /\ req[s].kind = "wstatus" /\ req[s].pc = "ws_exit"
    /\ IF InTxn
       THEN /\ db' = txn[1]
            /\ txn' = None
            /\ Reply(s, req[s], req[s].code, req[s].error)
       ELSE /\ UNCHANGED <<db, txn>>
            /\ Goto(s, [req[s] EXCEPT !.code = 0, !.error = ""], "ws_catch")
    /\ UNCHANGED <<ADMIN_WIN_SIDE, nreq>>

\* Faulty variant: the refund is issued whatever the new status.
WithdrawStatusUpdateRefunding(s) ==
    /\ req[s].kind = "wstatus" /\ req[s].pc = "ws_update"
    /\ db' = UpdateWithdrawalStatus(db, req[s].id, req[s].status)
    /\ Goto(s, req[s], "ws_refund")
    /\ UNCHANGED <<txn, ADMIN_WIN_SIDE, nreq>>

\* Line 1019: UPDATE withdrawals SET status=? WHERE id=?
WithdrawStatusUpdate(s) ==
    /\ req[s].kind = "wstatus" /\ req[s].pc = "ws_update"
    /\ db' = UpdateWithdrawalStatus(db, req[s].id, req[s].status)
    /\ IF req[s].status = "rejected"
       THEN Goto(s, req[s], "ws_refund")
       ELSE Goto(s, req[s], "ws_commit")
    /\ UNCHANGED <<txn, ADMIN_WIN_SIDE, nreq>>

\* Lines 1022-1037: the refund of a rejected withdrawal, from the row read at ws_get.
Refund(d, username, currency, amount) ==
    IF currency = "USDT"
    THEN UpdateUsersBalance(d, username, amount)
    ELSE UpsertUserBalances(d, username, currency, amount)

WithdrawStatusRefund(s) ==
    /\ req[s].kind = "wstatus" /\ req[s].pc = "ws_refund"
    /\ LET w == req[s].row[1]
       IN db' = Refund(db, w.username, w.currency, w.amount)
    /\ Goto(s, req[s], "ws_commit")
    /\ UNCHANGED <<txn, ADMIN_WIN_SIDE, nreq>>

\* Lines 1040-1041: COMMIT, then { success: true }.
WithdrawStatusCommit(s) ==
    /\ req[s].kind = "wstatus" /\ req[s].pc = "ws_commit"
    /\ IF ~InTxn
       THEN /\ UNCHANGED txn
            /\ Goto(s, req[s], "ws_catch")
       ELSE /\ txn' = None
            /\ Reply(s, req[s], 200, "")
    /\ UNCHANGED <<db, ADMIN_WIN_SIDE, nreq>>

\* Lines 1042-1045.
WithdrawStatusCatch(s) == CatchRollback(s, "wstatus", "ws_catch")

(* --------------------------- POST /api/deposit ------------------------- *)
\* Lines 548-551: the status lookup is awaited first.
StartDeposit(s, Amts) ==
    /\ Accept(s)
    /\ \E u \in UserNames, c \in Currencies, a \in Amts :
        Goto(s, [NewRequest("deposit", s) EXCEPT
                    !.username = u, !.fromCurrency = c, !.amount = a], "d_status")
    /\ nreq' = nreq + 1
    /\ UNCHANGED <<db, txn, ADMIN_WIN_SIDE>>

\* Faulty variant: the account status is not consulted.
DepositStatusUngated(s) ==
    /\ req[s].kind = "deposit" /\ req[s].pc = "d_status"
    /\ Goto(s, req[s], "d_insert")
    /\ UNCHANGED <<db, txn, ADMIN_WIN_SIDE, nreq>>

\* Line 552: the frozen gate.
DepositStatus(s) ==
    /\ req[s].kind = "deposit" /\ req[s].pc = "d_status"
    /\ LET r == req[s]
       IN IF HasUser(db, r.username) /\ db.users[r.username].status = "frozen"
          THEN Reply(s, r, 403, "Account frozen")
          ELSE Goto(s, r, "d_insert")
    /\ UNCHANGED <<db, txn, ADMIN_WIN_SIDE, nreq>>

\* Lines 558-563: the pending deposit record.
\* Faulty variant: the submission credits the legacy scalar at once.
DepositInsertCrediting(s) ==
    /\ req[s].kind = "deposit" /\ req[s].pc = "d_insert"
    /\ db' = UpdateUsersBalance(
                InsertDeposit(db, req[s].username, req[s].fromCurrency, req[s].amount),
                req[s].username, req[s].amount)
    /\ Reply(s, [req[s] EXCEPT !.id = Len(db.deposits) + 1], 200, "")
    /\ UNCHANGED <<txn, ADMIN_WIN_SIDE, nreq>>

DepositInsert(s) ==
    /\ req[s].kind = "deposit" /\ req[s].pc = "d_insert"
    /\ db' = InsertDeposit(db, req[s].username, req[s].fromCurrency, req[s].amount)
    /\ Reply(s, [req[s] EXCEPT !.id = Len(db.deposits) + 1], 200, "")
    /\ UNCHANGED <<txn, ADMIN_WIN_SIDE, nreq>>

(* ---------------------- POST /api/deposit/:id/status ------------------- *)
\* Lines 985-987: the UPDATE is issued with whatever status was sent.
StartDepositStatusWith(s, Args) ==
    /\ Accept(s)
    /\ \E id \in 1..(Len(db.deposits) + 1), st \in Args :
        Goto(s, [NewRequest("dstatus", s) EXCEPT !.id = id, !.status = st], "ds_update")
    /\ nreq' = nreq + 1
    /\ UNCHANGED <<db, txn, ADMIN_WIN_SIDE>>

StartDepositStatus(s) == StartDepositStatusWith(s, StatusArgs)

\* Line 987: UPDATE deposits SET status=? WHERE id=?
DepositStatusUpdate(s) ==
    /\ req[s].kind = "dstatus" /\ req[s].pc = "ds_update"
    /\ db' = UpdateDepositStatus(db, req[s].id, req[s].status)
    /\ IF req[s].status = "approved"
       THEN Goto(s, req[s], "ds_get")
       ELSE Reply(s, req[s], 200, "")
    /\ UNCHANGED <<txn, ADMIN_WIN_SIDE, nreq>>

\* Line 989: SELECT * FROM deposits WHERE id=?
DepositStatusGet(s) ==
    /\ req[s].kind = "dstatus" /\ req[s].pc = "ds_get"
    /\ IF req[s].id \in DOMAIN db.deposits
       THEN Goto(s, [req[s] EXCEPT !.row = Some(db.deposits[req[s].id])], "ds_credit")
       ELSE Reply(s, req[s], 200, "")
    /\ UNCHANGED <<db, txn, ADMIN_WIN_SIDE, nreq>>

\* Line 991: the approved deposit is credited to users.balance, whatever its currency.
DepositCredit(d, dep) == UpdateUsersBalance(d, dep.username, dep.amount)

DepositStatusCredit(s) ==
    /\ req[s].kind = "dstatus" /\ req[s].pc = "ds_credit"
    /\ db' = DepositCredit(db, req[s].row[1])
    /\ Reply(s, req[s], 200, "")
    /\ UNCHANGED <<txn, ADMIN_WIN_SIDE, nreq>>

(* ---------------------- POST /api/admin/users/balance ------------------ *)
AdminDeltas == {-100, 100}

\* Lines 728-731: the UPDATE is issued.
StartAdminBalance(s) ==
    /\ Accept(s)
    /\ \E u \in UserNames, a \in AdminDeltas :
        Goto(s, [NewRequest("adminbalance", s) EXCEPT !.username = u, !.amount = a],
             "ab_update")
    /\ nreq' = nreq + 1
    /\ UNCHANGED <<db, txn, ADMIN_WIN_SIDE>>

\* Lines 731-734: UPDATE users SET balance = balance + ?
AdminBalanceUpdate(s) ==
    /\ req[s].kind = "adminbalance" /\ req[s].pc = "ab_update"
    /\ db' = UpdateUsersBalance(db, req[s].username, req[s].amount)
    /\ Reply(s, req[s], 200, "")
    /\ UNCHANGED <<txn, ADMIN_WIN_SIDE, nreq>>

(* ------------------ POST /api/admin/users/add-coin-balance ------------- *)
\* INSERT INTO user_balances (username, currency, amount) VALUES (?, ?, ?)
\* (fails on the primary key when the row exists).
InsertUserBalances(d, username, currency, amount) ==
    [d EXCEPT !.user_balances =
        [k \in DOMAIN @ \cup {<<username, currency>>} |->
            IF k = <<username, currency>> THEN amount ELSE @[k]]]

\* Lines 739-748: the fields are present; the SELECT of the existing row is awaited.
StartAddCoin(s) ==
    /\ Accept(s)
    /\ \E u \in UserNames, c \in Currencies, a \in AdminDeltas :
        Goto(s, [NewRequest("addcoin", s) EXCEPT
                    !.username = u, !.fromCurrency = c, !.amount = a], "ac_select")
    /\ nreq' = nreq + 1
    /\ UNCHANGED <<db, txn, ADMIN_WIN_SIDE>>

\* Line 748: const existing = await db.get(...)
AddCoinSelect(s) ==
    /\ req[s].kind = "addcoin" /\ req[s].pc = "ac_select"
    /\ LET r == req[s]
       IN IF HasRow(db, r.username, r.fromCurrency)
          THEN Goto(s, [r EXCEPT !.row = Some(db.user_balances[<<r.username, r.fromCurrency>>])],
                    "ac_write")
          ELSE Goto(s, r, "ac_write")
    /\ UNCHANGED <<db, txn, ADMIN_WIN_SIDE, nreq>>

\* Lines 749-753: UPDATE when a row was found, INSERT otherwise; the handler has
\* no try/catch, so a failing INSERT escapes it.
AddCoinWrite(s) ==
    /\ req[s].kind = "addcoin" /\ req[s].pc = "ac_write"
    /\ LET r == req[s]
           next == IF r.fromCurrency = "USDT" THEN "ac_main" ELSE "ac_reply"
       IN IF r.row # None
          THEN /\ db' = UpdateUserBalances(db, r.username, r.fromCurrency, r.amount)
               /\ Goto(s, r, next)
          ELSE IF HasRow(db, r.username, r.fromCurrency)
               THEN UNCHANGED db /\ Hang(s, r)
               ELSE /\ db' = InsertUserBalances(db, r.username, r.fromCurrency, r.amount)
                    /\ Goto(s, r, next)
    /\ UNCHANGED <<txn, ADMIN_WIN_SIDE, nreq>>

\* Lines 756-758: if (currency === 'USDT') UPDATE users SET balance = balance + ?
AddCoinMain(s) ==
    /\ req[s].kind = "addcoin" /\ req[s].pc = "ac_main"
    /\ db' = UpdateUsersBalance(db, req[s].username, req[s].amount)
    /\ Goto(s, req[s], "ac_reply")
    /\ UNCHANGED <<txn, ADMIN_WIN_SIDE, nreq>>

\* Line 759: res.json({ status: "updated" })
AddCoinReply(s) ==
    /\ req[s].kind = "addcoin" /\ req[s].pc = "ac_reply"
    /\ Reply(s, req[s], 200, "")
    /\ UNCHANGED <<db, txn, ADMIN_WIN_SIDE, nreq>>

(* ----------------------------- POST /api/trade ------------------------- *)
\* settings.find(s => s.seconds == seconds): the first matching tier, if any.
TierFor(settings, seconds) ==
    LET hits == {i \in DOMAIN settings : settings[i].seconds = seconds}
    IN IF hits = {} THEN None
       ELSE Some(settings[CHOOSE i \in hits : \A j \in hits : i <= j])

\* Lines 852-858: if (seconds) { ... if (setting) percent = parseFloat(setting.percent) }
LookupPercent(seconds, percent, settings) ==
    IF seconds # None /\ seconds[1] # 0 /\ TierFor(settings, seconds[1]) # None
    THEN Some(TierFor(settings, seconds[1])[1].percent)
    ELSE percent

\* Lines 865-869: if (!percent || isNaN(...)) percent = parseFloat(req.body.percent) || 0
\* Faulty variant: an absent caller-supplied percent counts as 100.
FallbackPercentFull(p, bodyPercent) ==
    IF p = None \/ p[1] = 0
    THEN (IF bodyPercent = None THEN 100 ELSE bodyPercent[1])
    ELSE p[1]

FallbackPercent(p, bodyPercent) ==
    IF p = None \/ p[1] = 0
    THEN (IF bodyPercent = None THEN 0 ELSE bodyPercent[1])
    ELSE p[1]

ResolvePercent(seconds, bodyPercent, settings) ==
    FallbackPercent(LookupPercent(seconds, bodyPercent, settings), bodyPercent)

\* Faulty variant: the winning side is not consulted.
WinsAlways(side, winSide) == TRUE

\* const win = side === ADMIN_WIN_SIDE
Wins(side, winSide) == side = winSide

\* const profit = win ? amount * (percent / 100) : -amount
Profit(win, amount, percent) ==
    IF win THEN (amount * percent) \div 100 ELSE -amount

TradeFaults == {"none", "t_get", "t_insert", "t_update"}

\* Faulty variant: no minimum is enforced.
MinAmountIgnored(user) == 0

\* const minAmount = user.min_trade_amount || 10
MinAmountOf(user) ==
    IF user.min_trade_amount = 0 THEN DefaultMinTrade ELSE user.min_trade_amount

\* Lines 836-843: the body is read and the user lookup is awaited.
StartTrade(s, Users, Amts, Secs, Pcts, Faults) ==
    /\ Accept(s)
    /\ \E u \in Users, sd \in Sides, a \in Amts, sec \in Secs, pct \in Pcts, flt \in Faults :
        Goto(s, [NewRequest("trade", s) EXCEPT
                    !.username = u, !.side = sd, !.amount = a, !.seconds = sec,
                    !.percent = pct, !.fault = flt], "t_get")
    /\ nreq' = nreq + 1
    /\ UNCHANGED <<db, txn, ADMIN_WIN_SIDE>>

\* Lines 836-843 with an amount that parseFloat turns into NaN (absent or not a number).
StartTradeNaN(s, Users) ==
    /\ Accept(s)
    /\ \E u \in Users, sd \in Sides :
        Goto(s, [NewRequest("trade", s) EXCEPT
                    !.username = u, !.side = sd, !.isNaN = TRUE, !.percent = Some(50)],
             "t_get")
    /\ nreq' = nreq + 1
    /\ UNCHANGED <<db, txn, ADMIN_WIN_SIDE>>

\* Lines 843-877: validation, payout resolution, outcome and profit.
TradeGet(s) ==
    /\ req[s].kind = "trade" /\ req[s].pc = "t_get"
    /\ LET r == req[s]
       IN IF Faulty(r)
          THEN Reply(s, r, 500, "Validation failed")
          ELSE IF ~HasUser(db, r.username)
          THEN Reply(s, r, 404, "User not found")
          ELSE LET user == db.users[r.username]
                   minAmount == MinAmountOf(user)
                   pct == ResolvePercent(r.seconds, r.percent, user.trade_settings)
                   win == Wins(r.side, ADMIN_WIN_SIDE)
               IN IF ~r.isNaN /\ r.amount < minAmount
                  THEN Reply(s, r, 400, "Insufficient balance")
                  ELSE IF r.isNaN \/ r.amount <= 0
                  THEN Reply(s, r, 400, "Invalid amount")
                  ELSE Goto(s, [r EXCEPT !.usedPercent = pct, !.win = win,
                                         !.profit = Profit(win, r.amount, pct)], "t_insert")
    /\ UNCHANGED <<db, txn, ADMIN_WIN_SIDE, nreq>>

\* Lines 882-885: INSERT INTO trades
TradeInsert(s) ==
    /\ req[s].kind = "trade" /\ req[s].pc = "t_insert"
    /\ LET r == req[s]
       IN IF Faulty(r)
          THEN UNCHANGED db /\ Reply(s, r, 500, "Trade failed")
          ELSE /\ db' = InsertTrade(db, r.username, <<"BTC">>, r.side, r.amount, r.profit,
                                    IF r.win THEN "win" ELSE "lose")
               /\ Goto(s, r, "t_update")
    /\ UNCHANGED <<txn, ADMIN_WIN_SIDE, nreq>>

\* Faulty variant: the new balance is computed from the balance the handler
\* saw when the request arrived (read-modify-write).
SettleFromSnapshot(d, r) ==
    IF HasUser(d, r.username)
    THEN [d EXCEPT !.users[r.username].balance = Legacy(r.pre[1], r.username) + r.profit]
    ELSE d

\* Faulty variant: a settlement that would leave the balance negative is not applied.
SettleGated(d, r) ==
    IF Legacy(d, r.username) + r.profit >= 0
    THEN UpdateUsersBalance(d, r.username, r.profit)
    ELSE d

\* Lines 887-889: UPDATE users SET balance = balance + ? -- one statement, no prior read.
Settle(d, r) == UpdateUsersBalance(d, r.username, r.profit)

\* Lines 887-894: the balance update, then { result, profit }.
TradeUpdate(s) ==
    /\ req[s].kind = "trade" /\ req[s].pc = "t_update"
    /\ LET r == req[s]
       IN IF Faulty(r)
          THEN UNCHANGED db /\ Reply(s, r, 500, "Trade failed")
          ELSE /\ db' = Settle(db, r)
               /\ Reply(s, r, 200, "")
    /\ UNCHANGED <<txn, ADMIN_WIN_SIDE, nreq>>

(* -------------------------- POST /api/admin/winside -------------------- *)
\* Lines 902-905: ADMIN_WIN_SIDE = req.body.side (synchronous, no store access).
SetWinSide ==
    /\ \E side \in Sides : ADMIN_WIN_SIDE' = side
    /\ UNCHANGED <<db, txn, req, nreq, hist>>

\* Faulty variant: an argument that is not a trade side is ignored.
PostWinSideValidated(s, Args) ==
    /\ Accept(s)
    /\ \E side \in Args :
        /\ ADMIN_WIN_SIDE' = (IF side \in Sides THEN side ELSE ADMIN_WIN_SIDE)
        /\ Reply(s, [NewRequest("winside", s) EXCEPT !.side = side], 200, "")
    /\ nreq' = nreq + 1
    /\ UNCHANGED <<db, txn>>

\* Lines 902-905 as a request: the handler is synchronous, so the assignment
\* and the response { winSide } are one step.
PostWinSide(s, Args) ==
    /\ Accept(s)
    /\ \E side \in Args :
        /\ ADMIN_WIN_SIDE' = side
        /\ Reply(s, [NewRequest("winside", s) EXCEPT !.side = side], 200, "")
    /\ nreq' = nreq + 1
    /\ UNCHANGED <<db, txn>>

(* ----------------------------- GET /api/prices ------------------------- *)
\* Lines 329-332.  The request is accepted and getPrices() is awaited.
StartPrices(s) ==
    /\ Accept(s)
    /\ \E up \in Upstreams :
        Goto(s, [NewRequest("prices", s) EXCEPT !.upstream = Some(up)], "p_fetch")
    /\ nreq' = nreq + 1
    /\ UNCHANGED <<db, txn, ADMIN_WIN_SIDE>>

\* getPrices() returns and res.json(prices) answers.
PricesReply(s) ==
    /\ req[s].kind = "prices" /\ req[s].pc = "p_fetch"
    /\ Reply(s, [req[s] EXCEPT !.prices = Some(TickerPrices(req[s].upstream[1]))], 200, "")
    /\ UNCHANGED <<db, txn, ADMIN_WIN_SIDE, nreq>>

(* ------------------------------- Init ---------------------------------- *)
\* trade_settings of the registered user: two tiers, one of them paying 0 percent.
Tiers == <<[seconds |-> 60, percent |-> 25], [seconds |-> 120, percent |-> 0]>>

\* The registered user's funds after registration and the admin top-ups:
\* users.balance alone (admin/users/balance), or together with its USDT row
\* (admin/users/add-coin-balance), and possibly a BTC row.
InitDb ==
    {[users |-> [u \in {"u1"} |->
                    [balance |-> f[1], status |-> "active",
                     min_trade_amount |-> DefaultMinTrade, trade_settings |-> Tiers]],
      user_balances |-> [k \in f[2] \cup b |-> IF k[2] = "USDT" THEN 100 ELSE 50],
      deposits |-> <<>>, withdrawals |-> <<>>, trades |-> <<>>] :
        f \in {<<0, {}>>, <<100, {}>>, <<100, {<<"u1", "USDT">>}>>},
        b \in {{}, {<<"u1", "BTC">>}}}

InitWith(Dbs) ==
    /\ db \in Dbs
    /\ txn = None
    /\ ADMIN_WIN_SIDE = "short"
    /\ req = [s \in Slots |-> Idle]
    /\ nreq = 0
    /\ hist = [debited |-> ZeroOf, credited |-> ZeroOf, settled |-> 0, ntrades |-> 0,
               escrow |-> None,
               avail0 |-> [c \in Currencies |-> Available(db, "u1", c)],
               legacy0 |-> Legacy(db, "u1")]

Init == InitWith(InitDb)

(* ---------------------- POST /api/admin/users/freeze ------------------- *)
\* status: 'active' or 'frozen'
AccountStatuses == {"active", "frozen"}

\* UPDATE users SET status=? WHERE username=?
UpdateUserStatus(d, username, status) ==
    IF HasUser(d, username)
    THEN [d EXCEPT !.users[username].status = status]
    ELSE d

\* Lines 789-793: both fields are present; the UPDATE is issued.
StartFreeze(s) ==
    /\ Accept(s)
    /\ \E u \in UserNames, st \in AccountStatuses :
        Goto(s, [NewRequest("freeze", s) EXCEPT !.username = u, !.status = st], "fz_update")
    /\ nreq' = nreq + 1
    /\ UNCHANGED <<db, txn, ADMIN_WIN_SIDE>>

\* Lines 793-794.
FreezeUpdate(s) ==
    /\ req[s].kind = "freeze" /\ req[s].pc = "fz_update"
    /\ db' = UpdateUserStatus(db, req[s].username, req[s].status)
    /\ Reply(s, req[s], 200, "")
    /\ UNCHANGED <<txn, ADMIN_WIN_SIDE, nreq>>

(* --------------------- POST /api/admin/users/settings ------------------ *)
\* min_trade_amount as the admin may send it: absent (stored NULL, read as falsy),
\* a larger minimum, or a negative number (the endpoint validates nothing).
MinTradeAmounts == {0, 50, -100}

\* UPDATE users SET min_trade_amount=?, trade_settings=? WHERE username=?
UpdateUserSettings(d, username, minTrade, settings) ==
    IF HasUser(d, username)
    THEN [d EXCEPT !.users[username].min_trade_amount = minTrade,
                   !.users[username].trade_settings = settings]
    ELSE d

\* Lines 802-806: the UPDATE is issued (the request's amount holds min_trade_amount,
\* its row the trade_settings).
StartSettings(s) ==
    /\ Accept(s)
    /\ \E u \in UserNames, m \in MinTradeAmounts, ts \in {Tiers, <<>>} :
        Goto(s, [NewRequest("settings", s) EXCEPT
                    !.username = u, !.amount = m, !.row = Some(ts)], "st_update")
    /\ nreq' = nreq + 1
    /\ UNCHANGED <<db, txn, ADMIN_WIN_SIDE>>

\* Lines 806-807.
SettingsUpdate(s) ==
    /\ req[s].kind = "settings" /\ req[s].pc = "st_update"
    /\ db' = UpdateUserSettings(db, req[s].username, req[s].amount, req[s].row[1])
    /\ Reply(s, req[s], 200, "")
    /\ UNCHANGED <<txn, ADMIN_WIN_SIDE, nreq>>

(* ------------------------ handler steps, grouped ----------------------- *)
ConvertRun(s) ==
    \/ ConvertPrices(s) \/ ConvertCheck(s) \/ ConvertBegin(s) \/ ConvertDeduct(s)
    \/ ConvertMirror(s) \/ ConvertCredit(s) \/ ConvertSync(s) \/ ConvertLog(s)
    \/ ConvertCommit(s)

WithdrawRun(s) ==
    \/ WithdrawStatus(s) \/ WithdrawBegin(s) \/ WithdrawSelect(s) \/ WithdrawSelectMain(s)
    \/ WithdrawDeductRow(s) \/ WithdrawDeductMain(s) \/ WithdrawNoFunds(s)
    \/ WithdrawInsert(s) \/ WithdrawCommit(s)

WithdrawStatusRun(s) ==
    \/ WithdrawStatusBegin(s) \/ WithdrawStatusGet(s) \/ WithdrawStatusExit(s)
    \/ WithdrawStatusUpdate(s) \/ WithdrawStatusRefund(s) \/ WithdrawStatusCommit(s)

DepositRun(s) ==
    \/ DepositStatus(s) \/ DepositInsert(s)
    \/ DepositStatusUpdate(s) \/ DepositStatusGet(s) \/ DepositStatusCredit(s)

TradeRun(s) == TradeGet(s) \/ TradeInsert(s) \/ TradeUpdate(s)

(* ------------- SpecConvert: conversions one at a time, store faults ----- *)
NextConvert ==
    \/ AllIdle /\ StartConvert(1, ConvertFaults)
    \/ ConvertRun(1)
    \/ ConvertCatch(1)
    \/ Retire(1)

SpecConvert == Init /\ [][NextConvert]_vars

(* ------------- SpecLedger: every ledger operation, one at a time -------- *)
NextLedger ==
    \/ AllIdle /\ StartConvert(1, {"none"})
    \/ AllIdle /\ StartWithdraw(1, Amounts)
    \/ AllIdle /\ StartWithdrawStatus(1)
    \/ AllIdle /\ StartDeposit(1, Amounts)
    \/ AllIdle /\ StartDepositStatus(1)
    \/ AllIdle /\ StartAdminBalance(1)
    \/ AllIdle /\ StartTrade(1, {"u1"}, {100}, {None}, {Some(50)}, {"none"})
    \/ ConvertRun(1)
    \/ WithdrawRun(1)
    \/ WithdrawStatusRun(1)
    \/ DepositRun(1)
    \/ AdminBalanceUpdate(1)
    \/ TradeRun(1)
    \/ Retire(1)

SpecLedger == Init /\ [][NextLedger]_vars

(* ------------- SpecRace: concurrent conversions and withdrawals --------- *)
\* The user holds no USDT row, so the legacy scalar is the only USDT balance.
InitRace == Init /\ ~HasRow(db, "u1", "USDT")

NextRace ==
    \/ \E s \in Slots :
        \/ StartConvert(s, {"none"})
        \/ StartWithdraw(s, Amounts)
        \/ ConvertRun(s)
        \/ ConvertCatch(s)
        \/ WithdrawRun(s)
        \/ WithdrawCatch(s)
        \/ Retire(s)

SpecRace == InitRace /\ [][NextRace]_vars

(* ------------- SpecTrades: concurrent trades of one user ---------------- *)
\* Trades touch users.balance only: the user starts without per-currency rows.
InitTrades == Init /\ DOMAIN db.user_balances = {}

NextTrades ==
    \/ \E s \in Slots :
        \/ StartTrade(s, {"u1"}, {100, 200}, {None}, {Some(50)}, {"none"})
        \/ TradeRun(s)
        \/ Retire(s)
    \/ SetWinSide

SpecTrades == InitTrades /\ [][NextTrades]_vars

(* ------------- SpecSettle: trades one at a time, any payout input ------- *)
NextSettle ==
    \/ AllIdle /\ StartTrade(1, UserNames, {5, 100}, {None, Some(30), Some(60), Some(120)},
                             {None, Some(50)}, {"none"})
    \/ TradeRun(1)
    \/ SetWinSide
    \/ Retire(1)

SpecSettle == Init /\ [][NextSettle]_vars

(* ------------- SpecInvalid: requests with any amount, one at a time ----- *)
\* req.body.amount as a client may send it: negative, zero (or absent) and positive.
SignedAmounts == {-50, 0, 50}

NextInvalid ==
    \/ AllIdle /\ StartConvertWith(1, SignedAmounts, {"none"})
    \/ AllIdle /\ StartWithdraw(1, SignedAmounts)
    \/ AllIdle /\ StartDeposit(1, SignedAmounts)
    \/ AllIdle /\ StartTrade(1, {"u1"}, SignedAmounts, {None}, {Some(50)}, {"none"})
    \/ AllIdle /\ StartTradeNaN(1, {"u1"})
    \/ ConvertRun(1)
    \/ WithdrawRun(1)
    \/ DepositStatus(1)
    \/ DepositInsert(1)
    \/ TradeRun(1)
    \/ Retire(1)

SpecInvalid == Init /\ [][NextInvalid]_vars

(* ------------- SpecTradeFaults: trades one at a time, store faults ------ *)
NextTradeFaults ==
    \/ AllIdle /\ StartTrade(1, {"u1"}, {100}, {None}, {Some(50)}, TradeFaults)
    \/ TradeRun(1)
    \/ SetWinSide
    \/ Retire(1)

SpecTradeFaults == Init /\ [][NextTradeFaults]_vars

(* ------------- SpecUsers: withdrawals of two users, concurrently -------- *)
\* Both users are registered and funded: users.balance 100 and a BTC entry of 50 each.
InitDbUsers ==
    {[users |-> [u \in UserNames |->
                    [balance |-> 100, status |-> "active",
                     min_trade_amount |-> DefaultMinTrade, trade_settings |-> Tiers]],
      user_balances |-> [k \in {<<u, "BTC">> : u \in UserNames} |-> 50],
      deposits |-> <<>>, withdrawals |-> <<>>, trades |-> <<>>]}

\* The requests of "u1" are served in slot 1, those of "u2" in slot 2, so the
\* requests of one user never overlap each other.
OwnerOf(s) == IF s = 1 THEN "u1" ELSE "u2"

NextUsers ==
    \/ \E s \in Slots :
        \/ StartWithdraw(s, {50}) /\ req'[s].username = OwnerOf(s)
        \/ WithdrawRun(s)
        \/ WithdrawCatch(s)
        \/ Retire(s)

SpecUsers == InitWith(InitDbUsers) /\ [][NextUsers]_vars

(* ------------- SpecPending: withdrawals and their status updates -------- *)
\* The user has submitted two withdrawals, of 50 BTC and of 50 USDT; both are
\* pending and their amounts have been deducted (the BTC row exists).
PendingWithdrawals ==
    <<[username |-> "u1", currency |-> "BTC", amount |-> 50, status |-> "pending"],
      [username |-> "u1", currency |-> "USDT", amount |-> 50, status |-> "pending"]>>

InitDbPending ==
    {[d EXCEPT !.withdrawals = PendingWithdrawals] : d \in {e \in InitDb : HasRow(e, "u1", "BTC")}}

NextPending ==
    \/ AllIdle /\ StartWithdrawStatus(1)
    \/ AllIdle /\ StartWithdraw(1, {50})
    \/ WithdrawStatusRun(1)
    \/ WithdrawRun(1)
    \/ Retire(1)

SpecPending == InitWith(InitDbPending) /\ [][NextPending]_vars

(* ------------- SpecFrozen: freezing, deposits and withdrawals ----------- *)
NextFrozen ==
    \/ AllIdle /\ StartFreeze(1)
    \/ AllIdle /\ StartWithdraw(1, {50})
    \/ AllIdle /\ StartDeposit(1, {50})
    \/ FreezeUpdate(1)
    \/ WithdrawRun(1)
    \/ DepositStatus(1)
    \/ DepositInsert(1)
    \/ Retire(1)

SpecFrozen == Init /\ [][NextFrozen]_vars

(* ------------- SpecTradeCheck: trade validation, any amount and minimum - *)
\* Amounts around the minimum: negative, zero, below the default minimum,
\* between the default and a configured minimum of 50, and at that minimum.
TradeAmounts == {-50, 0, 5, 20, 50}

NextTradeCheck ==
    \/ AllIdle /\ StartTrade(1, UserNames, TradeAmounts, {None}, {Some(50)}, {"none"})
    \/ AllIdle /\ StartTradeNaN(1, UserNames)
    \/ AllIdle /\ StartSettings(1)
    \/ TradeRun(1)
    \/ SettingsUpdate(1)
    \/ Retire(1)

SpecTradeCheck == InitTrades /\ [][NextTradeCheck]_vars

(* ------------- SpecAdjust: the two admin balance adjustments ------------ *)
NextAdjust ==
    \/ AllIdle /\ StartAdminBalance(1)
    \/ AllIdle /\ StartAddCoin(1)
    \/ AdminBalanceUpdate(1)
    \/ AddCoinSelect(1)
    \/ AddCoinWrite(1)
    \/ AddCoinMain(1)
    \/ AddCoinReply(1)
    \/ Retire(1)

SpecAdjust == Init /\ [][NextAdjust]_vars

(* ------------- SpecStatus: submissions and any status argument ---------- *)
\* req.body.status as an admin client may send it: the three statuses or any other string.
AnyStatusArgs == StatusArgs \cup {"cancelled"}

NextStatus ==
    \/ AllIdle /\ StartDeposit(1, {50})
    \/ AllIdle /\ StartWithdraw(1, {50})
    \/ AllIdle /\ StartDepositStatusWith(1, AnyStatusArgs)
    \/ AllIdle /\ StartWithdrawStatusWith(1, AnyStatusArgs)
    \/ DepositRun(1)
    \/ WithdrawRun(1)
    \/ WithdrawStatusRun(1)
    \/ Retire(1)

SpecStatus == Init /\ [][NextStatus]_vars

(* ------------- SpecOutcome: the winning side and concurrent requests ---- *)
\* req.body.side as an admin client may send it: a trade side or any other string.
AnySides == Sides \cup {"up"}

\* The user holds 100 USDT and a BTC entry of 50.
InitOutcome == Init /\ HasRow(db, "u1", "BTC") /\ Legacy(db, "u1") = 100

\* Winside requests and trades overlap anything; a conversion, withdrawal,
\* deposit or balance adjustment of "u1" (USDT and BTC, live prices) starts
\* when no other request is in flight.
NextOutcome ==
    \/ \E s \in Slots :
        \/ PostWinSide(s, AnySides)
        \/ StartTrade(s, {"u1"}, {100}, {None}, {Some(50)}, {"none"})
        \/ TradeRun(s)
        \/ ConvertRun(s)
        \/ WithdrawRun(s)
        \/ DepositStatus(s)
        \/ DepositInsert(s)
        \/ AdminBalanceUpdate(s)
        \/ Retire(s)
    \/ AllIdle /\ StartConvertWith(1, {50}, {"none"}) /\ req'[1].username = "u1"
            /\ req'[1].fetchOk /\ {req'[1].fromCurrency, req'[1].toCurrency} = {"USDT", "BTC"}
    \/ AllIdle /\ StartWithdraw(1, {50}) /\ req'[1].username = "u1"
            /\ req'[1].fromCurrency \in {"USDT", "BTC"}
    \/ AllIdle /\ StartDeposit(1, {50}) /\ req'[1].username = "u1"
            /\ req'[1].fromCurrency = "USDT"
    \/ AllIdle /\ StartAdminBalance(1) /\ req'[1].username = "u1"

SpecOutcome == InitOutcome /\ [][NextOutcome]_vars

(* ------------- SpecMixed: trades overlapping withdrawals ---------------- *)
NextMixed ==
    \/ \E s \in Slots :
        \/ StartTrade(s, {"u1"}, {100}, {None}, {Some(50)}, {"none"})
        \/ StartWithdraw(s, {50}) /\ req'[s].username = "u1"
        \/ TradeRun(s)
        \/ WithdrawRun(s)
        \/ WithdrawCatch(s)
        \/ Retire(s)

SpecMixed == Init /\ [][NextMixed]_vars

(* ------- SpecAbsent: a user without entries beside one with zeros ------- *)
\* u1 holds no per-currency entry, u2 holds an entry of amount 0 for every
\* currency; both hold the same legacy scalar.  Slot s serves OwnerOf(s) and
\* the requests run one at a time.
InitDbAbsent ==
    {[users |-> [u \in UserNames |->
                    [balance |-> 100, status |-> "active",
                     min_trade_amount |-> DefaultMinTrade, trade_settings |-> Tiers]],
      user_balances |-> [k \in {<<"u2", c>> : c \in Currencies} |-> 0],
      deposits |-> <<>>, withdrawals |-> <<>>, trades |-> <<>>]}

NextAbsent ==
    \/ \E s \in Slots :
        \/ /\ \A t \in Slots : ~Busy(t)
           /\ StartConvertWith(s, SignedAmounts, {"none"})
           /\ req'[s].username = OwnerOf(s)
        \/ /\ \A t \in Slots : ~Busy(t)
           /\ StartWithdraw(s, SignedAmounts)
           /\ req'[s].username = OwnerOf(s)
        \/ ConvertRun(s)
        \/ WithdrawRun(s)
        \/ Retire(s)

SpecAbsent == InitWith(InitDbAbsent) /\ [][NextAbsent]_vars

(* ------- SpecDeposits: submissions overlapping status updates ---------- *)
NextDeposits ==
    \/ \E s \in Slots :
        \/ StartDeposit(s, {50})
        \/ StartDepositStatusWith(s, AnyStatusArgs)
        \/ DepositRun(s)
        \/ Retire(s)

SpecDeposits == Init /\ [][NextDeposits]_vars

(* ------- SpecPrices: the price oracle on any upstream answer ----------- *)
\* Callers share nothing: each call fetches on its own, so one at a time.
NextPrices ==
    \/ AllIdle /\ StartPrices(1)
    \/ PricesReply(1)
    \/ Retire(1)

SpecPrices == Init /\ [][NextPrices]_vars

(* ------- SpecApprove: status updates on a submitted deposit ------------ *)
\* u1 holds 100 and has submitted one deposit of 50 USDT, still pending.
InitDbDeposit ==
    {[users |-> [u \in {"u1"} |->
                    [balance |-> 100, status |-> "active",
                     min_trade_amount |-> DefaultMinTrade, trade_settings |-> Tiers]],
      user_balances |-> [k \in {<<"u1", "USDT">>} |-> 100],
      deposits |-> <<[username |-> "u1", currency |-> "USDT", amount |-> 50,
                      status |-> "pending"]>>,
      withdrawals |-> <<>>, trades |-> <<>>]}

NextApprove ==
    \/ \E s \in Slots :
        \/ StartDeposit(s, {50}) /\ req'[s].username = "u1"
        \/ StartDepositStatusWith(s, AnyStatusArgs)
        \/ DepositRun(s)
        \/ Retire(s)

SpecApprove == InitWith(InitDbDeposit) /\ [][NextApprove]_vars

(* ------- SpecRefund: concurrent status updates on one withdrawal ------- *)
\* Two handlers in flight at a time, one more request than elsewhere: the
\* first update is between its SELECT and its UPDATE when the second fails
\* at BEGIN and rolls back, and a third then finds the withdrawal pending.
MaxStatusUpdates == MaxRequests + 1

NextRefund ==
    \/ \E s \in Slots :
        \/ /\ req[s].pc = "idle" /\ nreq < MaxStatusUpdates
           /\ SubmitWithdrawStatus(s, {"approved", "rejected"})
           /\ req'[s].id = 1
        \/ WithdrawStatusRun(s)
        \/ WithdrawStatusCatch(s)
        \/ Retire(s)

SpecRefund == InitWith(InitDbPending) /\ [][NextRefund]_vars

(* ------- SpecRecords: trades overlapping changes of the winning side --- *)
\* req.body.percent is not validated: any number is taken.
AnyPercents == {None, Some(50), Some(-100)}

NextRecords ==
    \/ \E s \in Slots :
        \/ StartTrade(s, {"u1"}, {100}, {None, Some(60)}, AnyPercents, {"none"})
        \/ PostWinSide(s, Sides)
        \/ TradeRun(s)
        \/ Retire(s)

SpecRecords == Init /\ [][NextRecords]_vars

(* ------------------------------- claims -------------------------------- *)
Done(s, kind) == req[s].kind = kind /\ req[s].pc = "done"

Quiescent == \A s \in Slots : ~Busy(s)

\* Balances of a user are the same in two database states.
SameBalances(d, e, username) ==
    /\ Legacy(d, username) = Legacy(e, username)
    /\ \A c \in Currencies : Entry(d, username, c) = Entry(e, username, c)

\* C1 (SpecRace): the amounts debited from a currency by the conversions and
\* withdrawals that were answered with success never exceed the balance that
\* was available before them plus what successful conversions credited to it.
C1_NoDoubleSpend ==
    \A c \in Currencies : hist.debited[c] <= hist.avail0[c] + hist.credited[c]

\* C2 (SpecConvert): a conversion answered with success had valid inputs and
\* sufficient funds, lowered the available source balance by exactly amount,
\* raised the target balance by exactly amount * price(from) / price(to), and
\* appended exactly one trade record (side "convert", amount, profit = the
\* converted amount, result "win").
C2_ConvertEffect ==
    \A s \in Slots :
        (Done(s, "convert") /\ req[s].code = 200) =>
            LET r == req[s]
                p == r.pre[1]
                u == r.username
                pf == PriceOf(getPrices(r.fetchOk), r.fromCurrency)
                pt == PriceOf(getPrices(r.fetchOk), r.toCurrency)
                rec == db.trades[Len(db.trades)]
            IN /\ r.amount > 0 /\ r.fromCurrency # r.toCurrency /\ pf > 0 /\ pt > 0
               /\ Available(p, u, r.fromCurrency) >= r.amount
               /\ Available(db, u, r.fromCurrency) = Available(p, u, r.fromCurrency) - r.amount
               /\ Available(db, u, r.toCurrency) * pt =
                    Available(p, u, r.toCurrency) * pt + r.amount * pf
               /\ Len(db.trades) = Len(p.trades) + 1
               /\ SubSeq(db.trades, 1, Len(p.trades)) = p.trades
               /\ rec.username = u /\ rec.side = "convert" /\ rec.result = "win"
               /\ rec.amount = r.amount /\ rec.profit * pt = r.amount * pf

C2_Witness ==
    \E s \in Slots :
        /\ Done(s, "convert") /\ req[s].code = 200
        /\ req[s].fromCurrency = "USDT" /\ req[s].toCurrency = "BTC"
        /\ req[s].amount = 100 /\ Entry(db, "u1", "BTC") = Entry(req[s].pre[1], "u1", "BTC") + 50

\* C3 (SpecConvert): a conversion whose debit, mirror, credit, sync, log or
\* commit statement failed (so it was not answered with 200, nor rejected with
\* 400 before BEGIN) is answered with 500 and leaves every balance of the user
\* and the trade log exactly as they were before the call, with no transaction
\* left open.
C3_ConvertRollback ==
    \A s \in Slots :
        (/\ req[s].kind = "convert"
         /\ req[s].pc \in {"done", "hung"}
         /\ req[s].fault \in {"c_deduct", "c_mirror", "c_credit", "c_sync", "c_log", "c_commit"}
         /\ req[s].code \notin {200, 400}) =>
            /\ req[s].pc = "done" /\ req[s].code = 500
            /\ SameBalances(db, req[s].pre[1], req[s].username)
            /\ db.trades = req[s].pre[1].trades
            /\ txn = None

C3_Witness ==
    \E s \in Slots :
        /\ Done(s, "convert") /\ req[s].code = 500 /\ req[s].fault = "c_log"
        /\ req[s].toCurrency = "USDT" /\ req[s].targetAmount > 0

\* C4 (SpecLedger): a conversion or withdrawal of a positive amount larger than
\* the available balance (legacy scalar for USDT, per-currency entry otherwise)
\* is rejected, and the database is left as it was.
C4_DebitGated ==
    \A s \in Slots :
        (/\ (Done(s, "convert") \/ Done(s, "withdraw"))
         /\ req[s].amount > 0
         /\ Available(req[s].pre[1], req[s].username, req[s].fromCurrency) < req[s].amount) =>
            /\ req[s].code = 400
            /\ db = req[s].pre[1]

\* C5 (SpecLedger): rejecting a withdrawal right after its submission restores
\* the legacy scalar and every per-currency entry of the user to their values
\* before the submission.
C5_RefundRoundTrip ==
    \A s \in Slots :
        (/\ Done(s, "wstatus") /\ req[s].code = 200 /\ req[s].status = "rejected"
         /\ hist.escrow # None
         /\ hist.escrow[1].id = req[s].id
         /\ hist.escrow[1].after = req[s].pre[1]) =>
            SameBalances(db, hist.escrow[1].before, req[s].row[1].username)

\* C6 (SpecTrades): whenever no trade is in flight, the legacy balance is the
\* initial balance plus the sum of the profits of the trades answered with
\* success, and every one of them has its trade record.
C6_NoLostUpdate ==
    Quiescent =>
        /\ Legacy(db, "u1") = hist.legacy0 + hist.settled
        /\ Len(db.trades) = hist.ntrades
        /\ \A s \in Slots :
            (Done(s, "trade") /\ req[s].code = 200) =>
                \E i \in DOMAIN db.trades :
                    /\ db.trades[i].amount = req[s].amount
                    /\ db.trades[i].side = req[s].side
                    /\ db.trades[i].profit = req[s].profit

C6_Witness ==
    /\ \A s \in Slots : Done(s, "trade") /\ req[s].code = 200
    /\ \E s \in Slots : req[s].overlapped
    /\ req[1].profit # req[2].profit

\* C7 (SpecSettle): the step that settles an accepted trade makes it a win
\* exactly when its side is the winning side at that moment, with
\* profit = amount * percent / 100 for a win and -amount for a loss; the
\* record inserted next carries that result and profit.
C7_Outcome ==
    [][\A s \in Slots :
        /\ (req[s].pc = "t_get" /\ req'[s].pc = "t_insert") =>
            /\ req'[s].win <=> (req[s].side = ADMIN_WIN_SIDE)
            /\ req'[s].win => req'[s].profit * 100 = req[s].amount * req'[s].usedPercent
            /\ ~req'[s].win => req'[s].profit = -req[s].amount
        /\ (req[s].pc = "t_insert" /\ req'[s].pc = "t_update") =>
            /\ Len(db'.trades) = Len(db.trades) + 1
            /\ db'.trades[Len(db'.trades)].result = (IF req[s].win THEN "win" ELSE "lose")
            /\ db'.trades[Len(db'.trades)].profit = req[s].profit
      ]_vars

C7_Witness ==
    \E s \in Slots :
        /\ Done(s, "trade") /\ req[s].code = 200
        /\ req[s].side = "long" /\ req[s].amount = 100 /\ req[s].usedPercent = 50
        /\ req[s].win /\ req[s].profit = 50
        /\ db.trades[Len(db.trades)].result = "win"

\* C8 (SpecSettle): a winning trade whose duration matches one of the user's
\* tiers is settled with that tier's percent: profit = amount * tier percent / 100.
C8_TierOverrides ==
    \A s \in Slots :
        (/\ req[s].kind = "trade" /\ req[s].pc \in {"t_insert", "t_update", "done"}
         /\ req[s].code \in {0, 200}
         /\ req[s].win
         /\ req[s].seconds # None
         /\ TierFor(db.users[req[s].username].trade_settings, req[s].seconds[1]) # None) =>
            LET tier == TierFor(db.users[req[s].username].trade_settings, req[s].seconds[1])[1]
            IN /\ req[s].usedPercent = tier.percent
               /\ req[s].profit * 100 = req[s].amount * tier.percent

\* C9 (SpecLedger): a conversion into USDT, the approval of a USDT deposit and
\* the refund of a USDT withdrawal each raise the legacy scalar by the credited
\* amount and, when the user has a USDT row, raise that row by the same amount.
CreditedBoth(before, username, amount) ==
    HasUser(before, username) =>
    /\ Legacy(db, username) = Legacy(before, username) + amount
    /\ HasRow(before, username, "USDT") =>
            Entry(db, username, "USDT") = Entry(before, username, "USDT") + amount

C9_PrimaryCreditSync ==
    \A s \in Slots :
        /\ (Done(s, "convert") /\ req[s].code = 200 /\ req[s].toCurrency = "USDT") =>
                CreditedBoth(req[s].pre[1], req[s].username, req[s].targetAmount)
        /\ (/\ Done(s, "dstatus") /\ req[s].status = "approved" /\ req[s].row # None
            /\ req[s].row[1].currency = "USDT") =>
                CreditedBoth(req[s].pre[1], req[s].row[1].username, req[s].row[1].amount)
        /\ (/\ Done(s, "wstatus") /\ req[s].code = 200 /\ req[s].status = "rejected"
            /\ req[s].row[1].currency = "USDT") =>
                CreditedBoth(req[s].pre[1], req[s].row[1].username, req[s].row[1].amount)

\* C10 (SpecLedger): whenever no request is in flight, every user's USDT row,
\* if there is one, equals the user's legacy scalar.
C10_MirrorInSync ==
    Quiescent =>
        \A u \in UserNames :
            HasRow(db, u, "USDT") => Entry(db, u, "USDT") = Legacy(db, u)

\* C11 (SpecLedger): approving a pending deposit of a registered user raises the
\* per-currency entry of the deposit's currency by the deposited amount, raises
\* the legacy scalar by it exactly when that currency is USDT, and leaves every
\* other entry as it was.
C11_DepositCredit ==
    \A s \in Slots :
        (/\ Done(s, "dstatus") /\ req[s].status = "approved" /\ req[s].row # None
         /\ req[s].pre[1].deposits[req[s].id].status = "pending"
         /\ HasUser(req[s].pre[1], req[s].row[1].username)) =>
            LET p == req[s].pre[1]
                dep == req[s].row[1]
            IN /\ \A c \in Currencies :
                    Entry(db, dep.username, c) =
                        Entry(p, dep.username, c) + (IF c = dep.currency THEN dep.amount ELSE 0)
               /\ Legacy(db, dep.username) =
                    Legacy(p, dep.username) + (IF dep.currency = "USDT" THEN dep.amount ELSE 0)

\* C12 (SpecInvalid): a deposit, withdrawal, conversion or trade request whose
\* amount is absent, zero or negative is answered 400 and leaves the database
\* (records and balances) as it was.
C12_InvalidAmountRejected ==
    \A s \in Slots :
        (/\ req[s].kind \in {"deposit", "withdraw", "convert", "trade"}
         /\ req[s].pc = "done"
         /\ (req[s].isNaN \/ req[s].amount <= 0)) =>
            /\ req[s].code = 400
            /\ db = req[s].pre[1]

\* C13 (SpecTradeFaults): once a trade request has been answered, either its
\* trade record is present and the user's balance has changed by the record's
\* profit, or there is no new record and the balance is as it was.
C13_TradeAtomic ==
    \A s \in Slots :
        Done(s, "trade") =>
            LET p == req[s].pre[1]
                u == req[s].username
                n == Len(db.trades)
            IN \/ /\ n = Len(p.trades) + 1
                  /\ db.trades[n].username = u
                  /\ Legacy(db, u) = Legacy(p, u) + db.trades[n].profit
               \/ /\ db.trades = p.trades
                  /\ Legacy(db, u) = Legacy(p, u)

\* Everything a user holds, over both representations.
Holdings(d, username) ==
    Legacy(d, username) + Entry(d, username, "USDT") + Entry(d, username, "BTC")
        + Entry(d, username, "XAU")

\* C14 (SpecUsers): a withdrawal of one user that runs while only requests of
\* the other user are in flight ends as it would alone: it is answered, with
\* 200 or 400 (the store never fails here); when accepted its pending record
\* is in the store and the user's holdings are lower by the amount; when
\* refused the user's balances are as they were.
C14_UsersIndependent ==
    \A s \in Slots :
        (req[s].kind = "withdraw" /\ req[s].pc \in {"done", "hung"}) =>
            LET r == req[s]
                p == r.pre[1]
            IN /\ r.pc = "done"
               /\ r.code \in {200, 400}
               /\ r.code = 200 =>
                    /\ r.id \in DOMAIN db.withdrawals
                    /\ db.withdrawals[r.id].username = r.username
                    /\ Holdings(db, r.username) = Holdings(p, r.username) - r.amount
               /\ r.code = 400 => SameBalances(db, p, r.username)

\* C15 (SpecPending): with status updates applied one after another, a
\* withdrawal that is not pending never changes status again, a pending one
\* only becomes approved or rejected, and an update addressed to a withdrawal
\* that is not pending is answered 400 "Withdrawal already processed" and
\* leaves the database (statuses and balances) as it was.
C15_AlreadyProcessed ==
    [][/\ \A id \in DOMAIN db.withdrawals :
            /\ id \in DOMAIN db'.withdrawals
            /\ db.withdrawals[id].status # "pending" =>
                    db'.withdrawals[id].status = db.withdrawals[id].status
            /\ db'.withdrawals[id].status \in {db.withdrawals[id].status, "approved", "rejected"}
       /\ \A s \in Slots :
            (/\ req[s].kind = "wstatus" /\ req[s].pc # "done" /\ req'[s].pc = "done"
             /\ req[s].id \in DOMAIN req[s].pre[1].withdrawals
             /\ req[s].pre[1].withdrawals[req[s].id].status # "pending") =>
                /\ req'[s].code = 400
                /\ req'[s].error = "Withdrawal already processed"
                /\ db' = req[s].pre[1]
      ]_vars

C15_Witness ==
    \E s \in Slots :
        /\ Done(s, "wstatus") /\ req[s].code = 400 /\ req[s].status = "rejected"
        /\ req[s].error = "Withdrawal already processed"
        /\ db.withdrawals[req[s].id].status = "approved"

\* C16 (SpecPending): approving a pending withdrawal changes only the status
\* of that withdrawal: the users table (every legacy scalar) and the
\* user_balances table (every per-currency entry) are as before the approval.
C16_ApprovalFrame ==
    \A s \in Slots :
        (Done(s, "wstatus") /\ req[s].code = 200 /\ req[s].status = "approved") =>
            LET p == req[s].pre[1]
            IN /\ db.users = p.users
               /\ db.user_balances = p.user_balances
               /\ db = [p EXCEPT !.withdrawals[req[s].id].status = "approved"]

C16_Witness ==
    \E s \in Slots :
        /\ Done(s, "wstatus") /\ req[s].code = 200 /\ req[s].status = "approved"
        /\ req[s].row[1].currency = "USDT" /\ req[s].row[1].amount = 50
        /\ db.withdrawals[req[s].id].status = "approved"
        /\ req[s].pre[1].withdrawals[req[s].id].status = "pending"

\* C17 (SpecRace): whenever no request is in flight and no transaction is
\* open, every per-currency entry is non-negative.
C17_EntriesNonNegative ==
    (Quiescent /\ txn = None) =>
        \A k \in DOMAIN db.user_balances : db.user_balances[k] >= 0

\* C18 (SpecFrozen): a deposit or withdrawal submitted by a user whose account
\* status is frozen is answered 403 "Account frozen" and leaves the database
\* as it was: no deposit or withdrawal record, no balance change.
C18_FrozenRejected ==
    \A s \in Slots :
        (/\ (Done(s, "withdraw") \/ Done(s, "deposit"))
         /\ HasUser(req[s].pre[1], req[s].username)
         /\ req[s].pre[1].users[req[s].username].status = "frozen") =>
            /\ req[s].code = 403
            /\ req[s].error = "Account frozen"
            /\ db = req[s].pre[1]

C18_Witness ==
    \E s \in Slots :
        /\ Done(s, "withdraw") /\ req[s].code = 403
        /\ db.users[req[s].username].status = "frozen"
        /\ req[s].fromCurrency = "BTC" /\ Entry(db, req[s].username, "BTC") >= req[s].amount
        /\ db.withdrawals = <<>>

\* C19 (SpecSettle): a trade of a registered user with an amount of at least
\* the minimum is accepted whatever the user's balance, and an accepted trade
\* changes the legacy scalar by exactly its profit (amount * percent / 100 for a
\* win, -amount for a loss) -- also when that leaves the balance negative --
\* and changes no per-currency entry.
C19_TradeSettles ==
    \A s \in Slots :
        Done(s, "trade") =>
            LET r == req[s]
                p == r.pre[1]
            IN /\ (HasUser(p, r.username) /\ r.amount >= MinAmountOf(p.users[r.username])
                        /\ r.amount > 0) => r.code = 200
               /\ r.code = 200 =>
                    /\ Legacy(db, r.username) = Legacy(p, r.username) + r.profit
                    /\ r.win => r.profit * 100 = r.amount * r.usedPercent
                    /\ ~r.win => r.profit = -r.amount
                    /\ db.user_balances = p.user_balances

C19_Witness ==
    \E s \in Slots :
        /\ Done(s, "trade") /\ req[s].code = 200 /\ ~req[s].win
        /\ Legacy(req[s].pre[1], req[s].username) < req[s].amount
        /\ Legacy(db, req[s].username) = Legacy(req[s].pre[1], req[s].username) - req[s].amount
        /\ Legacy(db, req[s].username) < 0

\* C20 (SpecTradeCheck): a trade for a user that does not exist is answered
\* 404 "User not found"; a trade whose amount is not a number, is not
\* positive, or is below the user's minimum trade amount (10 when none is
\* configured) is answered 400; in both cases the database is left as it was
\* (no trade record, no balance change).
C20_TradeValidated ==
    \A s \in Slots :
        Done(s, "trade") =>
            LET r == req[s]
                p == r.pre[1]
            IN /\ ~HasUser(p, r.username) =>
                    /\ r.code = 404 /\ r.error = "User not found"
                    /\ db = p
               /\ (/\ HasUser(p, r.username)
                   /\ \/ r.isNaN
                      \/ r.amount <= 0
                      \/ r.amount < (IF p.users[r.username].min_trade_amount = 0
                                     THEN DefaultMinTrade
                                     ELSE p.users[r.username].min_trade_amount)) =>
                    /\ r.code = 400
                    /\ db = p

C20_Witness ==
    \E s \in Slots :
        /\ Done(s, "trade") /\ req[s].code = 400 /\ req[s].username = "u1"
        /\ req[s].amount = 20 /\ db.users["u1"].min_trade_amount = 50
        /\ db.trades = <<>>

\* C21 (SpecConvert): a conversion with valid parameters whose source or
\* target currency is absent from the price mapping in force (live or
\* fallback) is answered 400 "Price not available", leaves the database as it
\* was (no balance change, no trade record) and leaves no transaction open.
C21_PriceUnavailable ==
    \A s \in Slots :
        (/\ Done(s, "convert")
         /\ req[s].amount > 0 /\ req[s].fromCurrency # req[s].toCurrency
         /\ \/ req[s].fromCurrency \notin DOMAIN getPrices(req[s].fetchOk)
            \/ req[s].toCurrency \notin DOMAIN getPrices(req[s].fetchOk)) =>
            /\ req[s].code = 400
            /\ req[s].error = "Price not available"
            /\ db = req[s].pre[1]
            /\ txn = None

C21_Witness ==
    \E s \in Slots :
        /\ Done(s, "convert") /\ req[s].code = 400 /\ req[s].error = "Price not available"
        /\ req[s].fromCurrency = "USDT" /\ req[s].toCurrency = "XAU"
        /\ req[s].amount = 100 /\ Legacy(db, req[s].username) >= 100

\* C22 (SpecAdjust): an admin adjustment of a registered user's balance by a
\* signed amount (admin/users/balance adjusts USDT, add-coin-balance adjusts
\* the currency it names) is always applied, even when it leaves the balance
\* negative: afterwards the per-currency entry of that currency exists and
\* has changed by the amount, and the legacy scalar has changed by the amount
\* exactly when the currency is USDT.
C22_AdjustIsCredit ==
    \A s \in Slots :
        (/\ (Done(s, "adminbalance") \/ Done(s, "addcoin"))
         /\ HasUser(req[s].pre[1], req[s].username)) =>
            LET r == req[s]
                p == r.pre[1]
                c == IF r.kind = "adminbalance" THEN "USDT" ELSE r.fromCurrency
            IN /\ r.code = 200
               /\ HasRow(db, r.username, c)
               /\ Entry(db, r.username, c) = Entry(p, r.username, c) + r.amount
               /\ Legacy(db, r.username) =
                    Legacy(p, r.username) + (IF c = "USDT" THEN r.amount ELSE 0)

\* C23 (SpecStatus): in every state the status of every deposit record and of
\* every withdrawal record is pending, approved or rejected.
C23_StatusDomain ==
    /\ \A i \in DOMAIN db.deposits : db.deposits[i].status \in {"pending", "approved", "rejected"}
    /\ \A i \in DOMAIN db.withdrawals :
            db.withdrawals[i].status \in {"pending", "approved", "rejected"}

\* C24 (SpecOutcome): in every state the winning side is long or short.
C24_OutcomeDomain == ADMIN_WIN_SIDE \in Sides

\* C30 (SpecOutcome): a winside request is always answered with success and
\* leaves the winning side equal to its argument; no step of any other
\* request (trade, conversion, deposit, withdrawal, balance adjustment)
\* changes the winning side; and a trade being settled wins exactly when its
\* side is the winning side at that step.
C30_OutcomeFrame ==
    [][/\ \A s \in Slots :
            /\ (req[s].pc = "idle" /\ req'[s].kind = "winside") =>
                    /\ req'[s].pc = "done" /\ req'[s].code = 200
                    /\ ADMIN_WIN_SIDE' = req'[s].side
            /\ (req[s].pc = "t_get" /\ req'[s].pc = "t_insert") =>
                    /\ req'[s].win <=> (req[s].side = ADMIN_WIN_SIDE)
                    /\ ADMIN_WIN_SIDE' = ADMIN_WIN_SIDE
       /\ (\A s \in Slots : ~(req[s].pc = "idle" /\ req'[s].kind = "winside")) =>
                ADMIN_WIN_SIDE' = ADMIN_WIN_SIDE
      ]_vars

C30_Witness ==
    \E s \in Slots, t \in Slots :
        /\ Done(s, "winside") /\ req[s].side = "long" /\ ADMIN_WIN_SIDE = "long"
        /\ Done(t, "trade") /\ req[t].code = 200 /\ req[t].side = "long" /\ req[t].win
        /\ req[t].profit = 50

\* C25 (SpecLedger): a status update addressed to a deposit id or withdrawal
\* id that names no record is answered 404 and leaves the database as it was.
C25_NotFound ==
    \A s \in Slots :
        /\ (Done(s, "dstatus") /\ req[s].id \notin DOMAIN req[s].pre[1].deposits) =>
                (req[s].code = 404 /\ db = req[s].pre[1])
        /\ (/\ Done(s, "wstatus") /\ req[s].status \in {"approved", "rejected"}
            /\ req[s].id \notin DOMAIN req[s].pre[1].withdrawals) =>
                (req[s].code = 404 /\ db = req[s].pre[1])

\* C26 (SpecLedger): a conversion from USDT or a withdrawal of USDT answered
\* with success lowers the legacy scalar by the amount, and lowers the USDT
\* entry by the amount exactly when that entry existed and held at least the
\* amount; otherwise the USDT entry is as it was (not created, not changed).
C26_PrimaryDebit ==
    \A s \in Slots :
        (/\ (Done(s, "convert") \/ Done(s, "withdraw"))
         /\ req[s].code = 200 /\ req[s].fromCurrency = "USDT") =>
            LET r == req[s]
                p == r.pre[1]
                u == r.username
            IN /\ Legacy(db, u) = Legacy(p, u) - r.amount
               /\ HasRow(db, u, "USDT") <=> HasRow(p, u, "USDT")
               /\ Entry(db, u, "USDT") =
                    (IF HasRow(p, u, "USDT") /\ Entry(p, u, "USDT") >= r.amount
                     THEN Entry(p, u, "USDT") - r.amount
                     ELSE Entry(p, u, "USDT"))

\* C27 (SpecMixed): the trade log holds at least one record for every trade
\* answered with success so far (records are never removed), and the record
\* of a trade that has just been answered with success is in the log.
C27_AppendOnly ==
    /\ Len(db.trades) >= hist.ntrades
    /\ \A s \in Slots :
        (Done(s, "trade") /\ req[s].code = 200) =>
            \E i \in DOMAIN db.trades :
                /\ db.trades[i].username = req[s].username
                /\ db.trades[i].side = req[s].side
                /\ db.trades[i].amount = req[s].amount
                /\ db.trades[i].profit = req[s].profit

\* C28 (SpecAbsent): when the two users, holding the same balances before
\* (an absent entry counted as 0), have each been served the same conversion
\* or withdrawal with the same inputs, they got the same answer and hold the
\* same balances after.
SameHoldings(d1, u1, d2, u2) ==
    /\ Legacy(d1, u1) = Legacy(d2, u2)
    /\ \A c \in Currencies : Entry(d1, u1, c) = Entry(d2, u2, c)

C28_AbsentIsZero ==
    \A k \in {"convert", "withdraw"} :
        (/\ Done(1, k) /\ Done(2, k)
         /\ req[1].fromCurrency = req[2].fromCurrency
         /\ req[1].toCurrency = req[2].toCurrency
         /\ req[1].amount = req[2].amount
         /\ req[1].fetchOk = req[2].fetchOk
         /\ SameHoldings(req[1].pre[1], "u1", req[2].pre[1], "u2")) =>
            /\ req[1].code = req[2].code
            /\ SameHoldings(db, "u1", db, "u2")

\* C29 (SpecSettle): a trade that passed validation with no duration, or with
\* a duration matching none of the user's tiers, uses the caller-supplied
\* percent, and uses 0 when that percent is absent (an absent percent and one
\* that does not parse take the same branch of the handler and are both the
\* value None here); a winning trade then has profit 0.
C29_FallbackPercent ==
    \A s \in Slots :
        LET r == req[s]
        IN (/\ r.kind = "trade"
            /\ r.pc \in {"t_insert", "t_update"} \/ (r.pc = "done" /\ r.code = 200)
            /\ HasUser(db, r.username)
            /\ \/ r.seconds = None
               \/ TierFor(db.users[r.username].trade_settings, r.seconds[1]) = None) =>
                /\ r.usedPercent = (IF r.percent = None THEN 0 ELSE r.percent[1])
                /\ (r.win /\ r.percent = None) => r.profit = 0

\* A winning trade with a duration outside the tiers and no percent has been
\* settled with profit 0.
C29_Witness ==
    /\ Done(1, "trade") /\ req[1].code = 200
    /\ req[1].seconds = Some(30) /\ req[1].percent = None
    /\ req[1].win /\ req[1].profit = 0 /\ req[1].usedPercent = 0

\* C31 (SpecDeposits): no step of a deposit submission changes a balance; the
\* step that answers it with success appends exactly one record, of status
\* pending, and its other steps leave the deposits as they were; a step of a
\* deposit status update changes a balance only when the update asks for
\* approved.
C31_DepositFrame ==
    [][\A s \in Slots :
        /\ (req[s].kind = "deposit" /\ req'[s] # req[s]) =>
                /\ db'.users = db.users /\ db'.user_balances = db.user_balances
                /\ IF req'[s].pc = "done" /\ req'[s].code = 200
                   THEN /\ Len(db'.deposits) = Len(db.deposits) + 1
                        /\ SubSeq(db'.deposits, 1, Len(db.deposits)) = db.deposits
                        /\ db'.deposits[Len(db'.deposits)].status = "pending"
                        /\ db'.deposits[Len(db'.deposits)].username = req[s].username
                        /\ db'.deposits[Len(db'.deposits)].amount = req[s].amount
                   ELSE db'.deposits = db.deposits
        /\ (/\ req[s].kind = "dstatus" /\ req'[s] # req[s]
            /\ db'.users # db.users \/ db'.user_balances # db.user_balances) =>
                req[s].status = "approved"]_vars

\* A submitted deposit is on record as pending and its user's balances are as
\* they were before the submission.
C31_Witness ==
    /\ Done(1, "deposit") /\ req[1].code = 200 /\ req[1].username = "u1"
    /\ req[1].id \in DOMAIN db.deposits
    /\ db.deposits[req[1].id].status = "pending"
    /\ db.deposits[req[1].id].amount = req[1].amount
    /\ SameBalances(db, req[1].pre[1], "u1")
    /\ Legacy(db, "u1") = 100

\* C32 (SpecPrices): whatever the upstream fetch produced (a throw, a body
\* that is not an array, an array with items that lack a symbol or a price),
\* the price request is answered with a mapping, and the mapping holds the
\* stable unit USDT at price exactly 1.
C32_PricesTotal ==
    \A s \in Slots :
        Done(s, "prices") =>
            /\ req[s].code = 200 /\ req[s].prices # None
            /\ "USDT" \in DOMAIN req[s].prices[1]
            /\ req[s].prices[1]["USDT"] = 1

\* The upstream listed BTCUSDT and a symbol that reduces to USDT at price 5;
\* the answer prices BTC from the ticker and USDT at 1.
C32_Witness ==
    \E s \in Slots :
        /\ Done(s, "prices") /\ req[s].upstream[1].kind = "array"
        /\ \E i \in DOMAIN req[s].upstream[1].items :
              /\ req[s].upstream[1].items[i].base = "USDT"
              /\ req[s].upstream[1].items[i].price = 5
        /\ DOMAIN req[s].prices[1] = {"BTC", "USDT"}
        /\ req[s].prices[1]["BTC"] = 2 /\ req[s].prices[1]["USDT"] = 1

\* C33 (SpecApprove): a deposit is credited at most once, so what u1 has been
\* credited on top of the initial 100 never exceeds the sum of the amounts of
\* u1's deposits (deposits and their status updates are the only requests).
RECURSIVE DepositedBy(_, _)
DepositedBy(deps, u) ==
    IF deps = <<>> THEN 0
    ELSE (IF Head(deps).username = u THEN Head(deps).amount ELSE 0)
         + DepositedBy(Tail(deps), u)

C33_CreditedOnce ==
    Legacy(db, "u1") <= 100 + DepositedBy(db.deposits, "u1")

\* C34 (SpecRefund): the pending withdrawal of 50 BTC is refunded at most
\* once: whatever status updates on it interleave, u1's BTC entry, when no
\* transaction is open, never exceeds what it was at the start plus the
\* withdrawal's amount.
C34_RefundedOnce ==
    txn = None =>
        Entry(db, "u1", "BTC") <= hist.avail0["BTC"] + PendingWithdrawals[1].amount

\* C35 (SpecUsers): whenever no request is running, what each user holds is
\* what the user held at the start less the amounts of the user's pending
\* withdrawal records: every pending record stands for a deduction that
\* persisted, and every persisted deduction has its record.
RECURSIVE PendingOf(_, _)
PendingOf(ws, u) ==
    IF ws = <<>> THEN 0
    ELSE (IF Head(ws).username = u /\ Head(ws).status = "pending"
          THEN Head(ws).amount ELSE 0)
         + PendingOf(Tail(ws), u)

C35_Escrow ==
    Quiescent =>
        \A u \in UserNames, d0 \in InitDbUsers :
            Holdings(db, u) = Holdings(d0, u) - PendingOf(db.withdrawals, u)

\* C36 (SpecMixed): a ROLLBACK undoes only the writes of the request that
\* issues it.  A withdrawal refused for insufficient balance has written
\* nothing when it issues its ROLLBACK, so the step that answers it 400
\* leaves the database as it was.
C36_RollbackOwnWrites ==
    [][\A s \in Slots :
        (/\ req[s].kind = "withdraw" /\ req[s].pc = "w_nofunds"
         /\ req'[s].pc = "done" /\ req'[s].code = 400) => db' = db]_vars

\* C37 (SpecConvert): no conversion ends without a response, whichever
\* store statement fails: the handler never terminates on an exception
\* thrown out of its error handler (a request in that state is never
\* answered).
C37_Answered ==
    \A s \in Slots : req[s].kind = "convert" => req[s].pc # "hung"

\* C38 (SpecRecords): every settlement record is consistent, also when the
\* winning side changes while trades run: its result is "lose" exactly when
\* its profit is -amount, a "win" has a profit that is not negative, and a
\* trade answered with success returned the result and profit of a record.
C38_RecordConsistent ==
    /\ \A i \in DOMAIN db.trades :
        LET t == db.trades[i]
        IN t.side \in Sides =>
            /\ t.result \in {"win", "lose"}
            /\ t.result = "lose" <=> t.profit = -t.amount
            /\ t.result = "win" => t.profit >= 0
    /\ \A s \in Slots :
        (Done(s, "trade") /\ req[s].code = 200) =>
            \E i \in DOMAIN db.trades :
                /\ db.trades[i].username = req[s].username
                /\ db.trades[i].result = (IF req[s].win THEN "win" ELSE "lose")
                /\ db.trades[i].profit = req[s].profit

====
